---------------------------- MODULE Spec2Model ----------------------------
(***************************************************************************)
(* A model of the local-llm-observability translation script:              *)
(*   main.py              main, the per-file loop and its shutdown         *)
(*   translation_agent.py TranslationAgent (_call_llm,                     *)
(*                        _translate_frontmatter, process_file)            *)
(*   monitor_agent.py     MLOpsMonitor (log_inference, close)              *)
(*                                                                         *)
(* Four specifications share the module:                                   *)
(*   Spec      the control flow of one run of main, with the inference     *)
(*             backend, the metrics database and the user's interrupt as   *)
(*             nondeterministic environment;                               *)
(*   SpecFM    _translate_frontmatter on character strings;                *)
(*   SpecPath  the output path derivation of process_file;                 *)
(*   SpecSplit the frontmatter/body split of process_file.                 *)
(* Text is a sequence of one-character strings.                            *)
(***************************************************************************)
EXTENDS Integers, Sequences, FiniteSets, TLC

\* Longest list of files get_files_to_process returns in the model.
MaxFiles == 2

VARIABLES
    \* ---- Spec: one run of main ----
    pc,            \* position of the (single) thread of control
    files,         \* files_to_process: a sequence of file kinds
    idx,           \* index in files of the file of the current iteration
    lang,          \* index in Langs of the language of the current iteration
    role,          \* what the current _call_llm translates
    conn,          \* MLOpsMonitor.conn
    exc,           \* the call that raised the exception in flight, or "none"
    pending,       \* model of an inference call not yet followed by an unload
    calls,         \* history: the inference calls started, in order
    unloadFailed,  \* history: the (file, language) whose unload call raised
    written,       \* history: the (file, language) outputs written
    attempted,     \* history: the files process_file was invoked on, in order
    errorsLogged,  \* history: the files whose error main printed
    interrupted,   \* history: a KeyboardInterrupt was raised
    closeCount,    \* history: calls of monitor.close
    donePrinted,   \* history: the completion notice was printed
    \* ---- SpecFM: one call of _translate_frontmatter ----
    raw_frontmatter,   \* the block passed in
    new_frontmatter,   \* the block being rewritten
    fm_step,           \* the field _translate_frontmatter is at
    translated,        \* what _call_llm returned for each field so far
    \* ---- SpecPath: the output paths of one source file ----
    path,              \* the source path: [abs, segs]
    target_path,       \* per language, str(target_path) once derived
    \* ---- SpecSplit: process_file on one document ----
    content,           \* the text read from the file
    frontmatter,       \* parts[1], or empty
    body,              \* parts[2], or the whole content
    split_pc,          \* position in process_file
    split_lang,        \* index in Langs of the language of the iteration
    fm_invoked,        \* history: languages _translate_frontmatter ran for
    body_calls         \* history: the body calls of _call_llm, in order

mainVars == <<pc, files, idx, lang, role, conn, exc, pending, calls,
              unloadFailed, written, attempted, errorsLogged, interrupted,
              closeCount, donePrinted>>

fmVars == <<raw_frontmatter, new_frontmatter, fm_step, translated>>

pathVars == <<path, target_path>>

splitVars == <<content, frontmatter, body, split_pc, split_lang, fm_invoked,
               body_calls>>

vars == <<mainVars, fmVars, pathVars, splitVars>>

-----------------------------------------------------------------------------
(* translation_agent.py: configuration *)

Langs == <<"EN", "JP">>

MODELS(l) ==
    IF l = "EN" THEN "gemma2:9b"
    ELSE IF l = "JP" THEN "qwen2.5:7b"
    ELSE "gemma2:9b"

\* The order in which _translate_frontmatter and process_file translate.
NextRole(r) ==
    CASE r = "title" -> "description"
      [] r = "description" -> "tags"
      [] r = "tags" -> "body"
      [] OTHER -> "none"

-----------------------------------------------------------------------------
(* The files a run can meet, by what process_file finds in them.           *)

FileKinds ==
    { [exists |-> FALSE, frontmatter |-> FALSE, fields |-> {}],
      [exists |-> TRUE,  frontmatter |-> FALSE, fields |-> {}],
      [exists |-> TRUE,  frontmatter |-> TRUE,  fields |-> {"title", "tags"}],
      [exists |-> TRUE,  frontmatter |-> TRUE,
       fields |-> {"title", "description", "tags"}] }

FileLists == UNION { [1..n -> FileKinds] : n \in 0..MaxFiles }

cur == files[idx]

-----------------------------------------------------------------------------
(* main.py: main *)

InitMain ==
    /\ pc = "select"
    /\ files = << >>
    /\ idx = 0
    /\ lang = 0
    /\ role = "none"
    /\ conn \in {"none", "open"}      \* MLOpsMonitor.__init__: _connect
    /\ exc = "none"
    /\ pending = "none"
    /\ calls = << >>
    /\ unloadFailed = {}
    /\ written = {}
    /\ attempted = << >>
    /\ errorsLogged = {}
    /\ interrupted = FALSE
    /\ closeCount = 0
    /\ donePrinted = FALSE

\* files_to_process = get_files_to_process(...); if empty: return
GetFilesToProcess ==
    /\ pc = "select"
    /\ \E fs \in FileLists :
         /\ files' = fs
         /\ pc' = IF fs = << >> THEN "finally" ELSE "loop"
    /\ UNCHANGED <<fmVars, pathVars, splitVars>>
    /\ UNCHANGED <<idx, lang, role, conn, exc, pending, calls, unloadFailed,
                   written, attempted, errorsLogged, interrupted,
                   closeCount, donePrinted>>

\* for file_path in pbar: translator.process_file(str(file_path))
NextFile ==
    /\ pc = "loop"
    /\ IF idx < Len(files)
         THEN /\ idx' = idx + 1
              /\ attempted' = Append(attempted, idx + 1)
              /\ pc' = "process_file"
         ELSE /\ pc' = "finally"
              /\ UNCHANGED <<idx, attempted>>
    /\ UNCHANGED <<fmVars, pathVars, splitVars>>
    /\ UNCHANGED <<files, lang, role, conn, exc, pending, calls,
                   unloadFailed, written, errorsLogged, interrupted,
                   closeCount, donePrinted>>

\* A variant of HandleException that ends the run at the first error.
HandleExceptionAbort ==
    /\ pc = "except"
    /\ errorsLogged' = errorsLogged \cup {idx}
    /\ exc' = "none"
    /\ role' = "none"
    /\ pc' = "finally"
    /\ UNCHANGED <<fmVars, pathVars, splitVars>>
    /\ UNCHANGED <<files, idx, lang, conn, pending, calls, unloadFailed,
                   written, attempted, interrupted, closeCount, donePrinted>>

\* except Exception as e: print(...); continue
HandleException ==
    /\ pc = "except"
    /\ errorsLogged' = errorsLogged \cup {idx}
    /\ exc' = "none"
    /\ role' = "none"
    /\ pc' = "loop"
    /\ UNCHANGED <<fmVars, pathVars, splitVars>>
    /\ UNCHANGED <<files, idx, lang, conn, pending, calls, unloadFailed,
                   written, attempted, interrupted, closeCount, donePrinted>>

\* A KeyboardInterrupt anywhere in the try block passes the inner
\* "except Exception" and reaches "except KeyboardInterrupt".
KeyboardInterrupt ==
    /\ pc \notin {"finally", "done"}
    /\ interrupted' = TRUE
    /\ exc' = "none"
    /\ pc' = "finally"
    /\ UNCHANGED <<fmVars, pathVars, splitVars>>
    /\ UNCHANGED <<files, idx, lang, role, conn, pending, calls,
                   unloadFailed, written, attempted, errorsLogged,
                   closeCount, donePrinted>>

\* A variant of Finally that leaves the connection open.
FinallyNoClose ==
    /\ pc = "finally"
    /\ donePrinted' = TRUE
    /\ pc' = "done"
    /\ UNCHANGED <<fmVars, pathVars, splitVars>>
    /\ UNCHANGED <<files, idx, lang, role, conn, exc, pending, calls,
                   unloadFailed, written, attempted, errorsLogged,
                   interrupted, closeCount>>

\* finally: monitor.close(); print("[INFO] Done.")
Finally ==
    /\ pc = "finally"
    /\ closeCount' = closeCount + 1
    /\ conn' = IF conn = "none" THEN "none" ELSE "closed"
    /\ donePrinted' = TRUE
    /\ pc' = "done"
    /\ UNCHANGED <<fmVars, pathVars, splitVars>>
    /\ UNCHANGED <<files, idx, lang, role, exc, pending, calls,
                   unloadFailed, written, attempted, errorsLogged,
                   interrupted>>

-----------------------------------------------------------------------------
(* translation_agent.py: process_file, _translate_frontmatter *)

\* path.exists() and the split; then the loop over the languages
ProcessFile ==
    /\ pc = "process_file"
    /\ IF cur.exists
         THEN /\ lang' = 1
              /\ pc' = "lang"
         ELSE /\ pc' = "loop"
              /\ UNCHANGED lang
    /\ UNCHANGED <<fmVars, pathVars, splitVars>>
    /\ UNCHANGED <<files, idx, role, conn, exc, pending, calls,
                   unloadFailed, written, attempted, errorsLogged,
                   interrupted, closeCount, donePrinted>>

\* for lang in ["EN", "JP"]: _translate_frontmatter(...) if frontmatter
StartLang ==
    /\ pc = "lang"
    /\ IF lang > Len(Langs)
         THEN /\ pc' = "loop"
              /\ role' = "none"
         ELSE IF cur.frontmatter
         THEN /\ pc' = "fm"
              /\ role' = "title"
         ELSE /\ pc' = "chat"
              /\ role' = "body"
    /\ UNCHANGED <<fmVars, pathVars, splitVars>>
    /\ UNCHANGED <<files, idx, lang, conn, exc, pending, calls,
                   unloadFailed, written, attempted, errorsLogged,
                   interrupted, closeCount, donePrinted>>

\* One of the three "if <field>_match:" steps of _translate_frontmatter;
\* after the third, process_file calls _call_llm on the body.
TranslateFrontmatter ==
    /\ pc = "fm"
    /\ IF role = "body" \/ role \in cur.fields
         THEN /\ pc' = "chat"
              /\ UNCHANGED role
         ELSE /\ role' = NextRole(role)
              /\ UNCHANGED pc
    /\ UNCHANGED <<fmVars, pathVars, splitVars>>
    /\ UNCHANGED <<files, idx, lang, conn, exc, pending, calls,
                   unloadFailed, written, attempted, errorsLogged,
                   interrupted, closeCount, donePrinted>>

\* _call_llm has returned: splice the field, or write the output file.
Return ==
    /\ pc = "ret"
    /\ IF role = "body"
         THEN /\ written' = written \cup {<<idx, lang>>}
              /\ lang' = lang + 1
              /\ role' = "none"
              /\ pc' = "lang"
         ELSE /\ role' = NextRole(role)
              /\ pc' = "fm"
              /\ UNCHANGED <<written, lang>>
    /\ UNCHANGED <<fmVars, pathVars, splitVars>>
    /\ UNCHANGED <<files, idx, conn, exc, pending, calls, unloadFailed,
                   attempted, errorsLogged, interrupted, closeCount,
                   donePrinted>>

-----------------------------------------------------------------------------
(* translation_agent.py: _call_llm; monitor_agent.py: log_inference *)

\* response = ollama.chat(...): returns, or raises when the backend fails.
Chat ==
    /\ pc = "chat"
    /\ pending' = MODELS(Langs[lang])
    /\ \E ok \in BOOLEAN :
         /\ calls' = Append(calls, [file |-> idx, lang |-> lang,
                                    role |-> role, ok |-> ok])
         /\ IF ok THEN /\ pc' = "log"
                       /\ UNCHANGED exc
                  ELSE /\ pc' = "except"
                       /\ exc' = "chat"
    /\ UNCHANGED <<fmVars, pathVars, splitVars>>
    /\ UNCHANGED <<files, idx, lang, role, conn, unloadFailed, written,
                   attempted, errorsLogged, interrupted, closeCount,
                   donePrinted>>

\* The database server goes away under an established connection.
Outage ==
    /\ conn = "open"
    /\ pc \notin {"finally", "done"}
    /\ conn' = "broken"
    /\ UNCHANGED <<fmVars, pathVars, splitVars>>
    /\ UNCHANGED <<pc, files, idx, lang, role, exc, pending, calls,
                   unloadFailed, written, attempted, errorsLogged,
                   interrupted, closeCount, donePrinted>>

\* self.monitor.log_inference(...)
\*   conn None: _connect; still None: return
\*   the INSERT succeeds, or fails and the handler calls self.conn.rollback(),
\*   which itself raises on a connection that is lost.
LogInference ==
    /\ pc = "log"
    /\ \/ /\ conn = "none"
          /\ \E connected \in BOOLEAN :
               conn' = IF connected THEN "open" ELSE "none"
          /\ pc' = "unload"
          /\ UNCHANGED exc
       \/ /\ conn = "open"              \* INSERT and commit, or a failed
          /\ pc' = "unload"             \* statement rolled back
          /\ UNCHANGED <<conn, exc>>
       \/ /\ conn = "broken"
          /\ \E rollbackRaises \in BOOLEAN :
               IF rollbackRaises
                 THEN /\ pc' = "except"
                      /\ exc' = "log_inference"
                 ELSE /\ pc' = "unload"
                      /\ UNCHANGED exc
          /\ UNCHANGED conn
    /\ UNCHANGED <<fmVars, pathVars, splitVars>>
    /\ UNCHANGED <<files, idx, lang, role, pending, calls, unloadFailed,
                   written, attempted, errorsLogged, interrupted,
                   closeCount, donePrinted>>

\* ollama.generate(model=model_name, keep_alive=0); return result_text
Unload ==
    /\ pc = "unload"
    /\ pending' = "none"
    /\ \E ok \in BOOLEAN :
         IF ok THEN /\ pc' = "ret"
                    /\ UNCHANGED exc
               ELSE /\ pc' = "except"
                    /\ exc' = "unload"
    /\ unloadFailed' = IF pc' = "except" THEN unloadFailed \cup {<<idx, lang>>}
                                         ELSE unloadFailed
    /\ UNCHANGED <<fmVars, pathVars, splitVars>>
    /\ UNCHANGED <<files, idx, lang, role, conn, calls, written, attempted,
                   errorsLogged, interrupted, closeCount, donePrinted>>

-----------------------------------------------------------------------------

ProgramStep ==
    \/ GetFilesToProcess
    \/ NextFile
    \/ ProcessFile
    \/ StartLang
    \/ TranslateFrontmatter
    \/ Chat
    \/ LogInference
    \/ Unload
    \/ Return
    \/ HandleException
    \/ Finally

Environment ==
    \/ Outage
    \/ KeyboardInterrupt

IdleMain ==
    /\ pc = "idle"
    /\ files = << >>
    /\ idx = 0
    /\ lang = 0
    /\ role = "none"
    /\ conn = "none"
    /\ exc = "none"
    /\ pending = "none"
    /\ calls = << >>
    /\ unloadFailed = {}
    /\ written = {}
    /\ attempted = << >>
    /\ errorsLogged = {}
    /\ interrupted = FALSE
    /\ closeCount = 0
    /\ donePrinted = FALSE

IdleFM ==
    /\ raw_frontmatter = << >>
    /\ new_frontmatter = << >>
    /\ fm_step = "idle"
    /\ translated = << >>

IdlePath ==
    /\ path = << >>
    /\ target_path = << >>

IdleSplit ==
    /\ content = << >>
    /\ frontmatter = << >>
    /\ body = << >>
    /\ split_pc = "idle"
    /\ split_lang = 0
    /\ fm_invoked = {}
    /\ body_calls = << >>

Init == InitMain /\ IdleFM /\ IdlePath /\ IdleSplit

Next == ProgramStep \/ Environment

Spec == Init /\ [][Next]_vars

-----------------------------------------------------------------------------
(* Claims checked under Spec *)

CallSet == { calls[i] : i \in 1..Len(calls) }

\* The run has left file i's process_file other than by an interrupt.
LeftFile(i) ==
    /\ ~interrupted
    /\ i >= 1
    /\ \/ i < idx
       \/ i = idx /\ pc \in {"loop", "finally", "done"}

\* C1: log_inference returns normally to _call_llm in every state of the
\* metrics connection, so no exception of the metrics sink reaches the
\* translation pipeline (and a language whose inference calls all succeed
\* has its output file written).
C1_MetricsFailureNeverSurfaces ==
    /\ exc # "log_inference"
    /\ \A i \in 1..Len(files) : \A l \in 1..Len(Langs) :
         ( /\ LeftFile(i)
           /\ \E c \in CallSet :
                c.file = i /\ c.lang = l /\ c.role = "body" /\ c.ok
           /\ <<i, l>> \notin unloadFailed )
         => <<i, l>> \in written

\* C2: when an inference call for EN raises on a file, at least one
\* inference call for JP is still started on that file.
C2_JPAttemptedAfterENFailure ==
    \A i \in 1..Len(files) :
      ( /\ LeftFile(i)
        /\ \E c \in CallSet : c.file = i /\ c.lang = 1 /\ ~c.ok )
      => \E c \in CallSet : c.file = i /\ c.lang = 2

\* C3: an exception raised by process_file for one file is caught and
\* logged by main, and process_file is still invoked on every later file,
\* in list order; without an interrupt the run ends only after the last
\* file has been attempted.
C3_RunContinuesPastFailedFile ==
    /\ attempted = [i \in 1..idx |-> i]
    /\ (pc = "done" /\ ~interrupted) => Len(attempted) = Len(files)
    /\ \A c \in CallSet :
         (~c.ok /\ LeftFile(c.file)) => c.file \in errorsLogged

C3_Witness ==
    /\ pc = "done"
    /\ ~interrupted
    /\ Len(files) >= 2
    /\ \E c \in CallSet : c.file = 1 /\ ~c.ok
    /\ 1 \in errorsLogged
    /\ Len(attempted) = Len(files)
    /\ \E c \in CallSet : c.file = Len(files)

\* C6: in _translate_frontmatter, when the title call raises, the inference
\* calls for the block's other recognized fields are still made.
C6_FieldsIsolated ==
    \A i \in 1..Len(files) : \A l \in 1..Len(Langs) :
      ( /\ LeftFile(i)
        /\ \E c \in CallSet :
             c.file = i /\ c.lang = l /\ c.role = "title" /\ ~c.ok )
      => \A f \in files[i].fields \ {"title"} :
           \E c \in CallSet : c.file = i /\ c.lang = l /\ c.role = f

\* The state part of C7: an interrupt leads straight to the finally clause;
\* close has run exactly once, and the notice is printed, exactly when the
\* run is over; the program stops nowhere else.
C7_StateInv ==
    /\ interrupted => pc \in {"finally", "done"}
    /\ closeCount = (IF pc = "done" THEN 1 ELSE 0)
    /\ donePrinted = (pc = "done")
    /\ pc = "done" => conn \in {"none", "closed"}
    /\ pc # "done" => ENABLED ProgramStep

\* C7: after a user interrupt no further file or inference call is started;
\* monitor.close is called exactly once, at the very end of the run, on
\* every way the try block ends (empty list, normal completion, interrupt),
\* and the completion notice is printed.
C7_InterruptShutsDownGracefully ==
    /\ []C7_StateInv
    /\ [][ /\ interrupted => (attempted' = attempted /\ calls' = calls
                                /\ written' = written)
           /\ pc = "done" => UNCHANGED vars ]_vars

C7_Witness ==
    /\ pc = "done"
    /\ interrupted
    /\ idx >= 1
    /\ idx < Len(files)
    /\ conn = "closed"
    /\ closeCount = 1
    /\ donePrinted

\* C10: every inference call started by _call_llm is followed by an unload
\* signal for its model before _call_llm is left and before another
\* inference call starts, whether the model call succeeds or raises or the
\* metrics logging fails.
C10_UnloadFollowsEveryCall ==
    (~interrupted /\ pc \notin {"log", "unload"}) => pending = "none"

-----------------------------------------------------------------------------
(* Text: the str and re operations the code uses *)

Whitespace == {" ", "\n", "\t"}

Quotes == {"'", "\""}

Least(S) == CHOOSE i \in S : \A j \in S : i <= j

Greatest(S) == CHOOSE i \in S : \A j \in S : i >= j

StartsAt(s, sub, i) ==
    /\ i >= 1
    /\ i + Len(sub) - 1 <= Len(s)
    /\ SubSeq(s, i, i + Len(sub) - 1) = sub

\* s.find(sub) from position from on: the least index, or 0
Find(s, sub, from) ==
    LET at == { i \in from..(Len(s) - Len(sub) + 1) : StartsAt(s, sub, i) }
    IN  IF at = {} THEN 0 ELSE Least(at)

\* sub in s
Contains(s, sub) == Find(s, sub, 1) # 0

\* s.replace(old, new): every non-overlapping occurrence, left to right
RECURSIVE Replace(_, _, _)
Replace(s, old, new) ==
    LET i == Find(s, old, 1)
    IN  IF i = 0 THEN s
        ELSE SubSeq(s, 1, i - 1) \o new
             \o Replace(SubSeq(s, i + Len(old), Len(s)), old, new)

\* s.strip()
Strip(s) ==
    LET keep == { i \in 1..Len(s) : s[i] \notin Whitespace }
    IN  IF keep = {} THEN << >> ELSE SubSeq(s, Least(keep), Greatest(keep))

\* s.split(sep, maxsplit); maxsplit = -1 splits at every occurrence
RECURSIVE Split(_, _, _)
Split(s, sep, maxsplit) ==
    LET i == Find(s, sep, 1)
    IN  IF maxsplit = 0 \/ i = 0 THEN <<s>>
        ELSE <<SubSeq(s, 1, i - 1)>>
             \o Split(SubSeq(s, i + Len(sep), Len(s)), sep, maxsplit - 1)

\* A match of re.search: group(1) is s[start..end]
NoMatch == [found |-> FALSE, start |-> 0, end |-> 0]

\* the position \s* leads to from q
SkipSpace(s, q) ==
    Least({ i \in q..(Len(s) + 1) : i = Len(s) + 1 \/ s[i] \notin Whitespace })

\* key\s*['"](.*?)['"] tried at position p
QuotedAt(s, key, p) ==
    LET q     == SkipSpace(s, p + Len(key))
        stops == { r \in (q + 1)..Len(s) : s[r] \in Quotes \cup {"\n"} }
    IN  IF /\ StartsAt(s, key, p)
           /\ q <= Len(s)
           /\ s[q] \in Quotes
           /\ stops # {}
           /\ s[Least(stops)] \in Quotes
        THEN [found |-> TRUE, start |-> q + 1, end |-> Least(stops) - 1]
        ELSE NoMatch

\* re.search(r"key\s*['\"](.*?)['\"]", s)
SearchQuoted(s, key) ==
    LET at == { p \in 1..Len(s) : QuotedAt(s, key, p).found }
    IN  IF at = {} THEN NoMatch ELSE QuotedAt(s, key, Least(at))

\* key\s*(\[.*?\]) tried at position p
BracketAt(s, key, p) ==
    LET q     == SkipSpace(s, p + Len(key))
        stops == { r \in (q + 1)..Len(s) : s[r] \in {"]", "\n"} }
    IN  IF /\ StartsAt(s, key, p)
           /\ q <= Len(s)
           /\ s[q] = "["
           /\ stops # {}
           /\ s[Least(stops)] = "]"
        THEN [found |-> TRUE, start |-> q, end |-> Least(stops)]
        ELSE NoMatch

\* re.search(r"key\s*(\[.*?\])", s)
SearchBracket(s, key) ==
    LET at == { p \in 1..Len(s) : BracketAt(s, key, p).found }
    IN  IF at = {} THEN NoMatch ELSE BracketAt(s, key, Least(at))

Group1(s, m) == SubSeq(s, m.start, m.end)

-----------------------------------------------------------------------------
(* SpecFM.  translation_agent.py: _translate_frontmatter on text *)

\* Most lines of a frontmatter block in the model.
MaxLines == 3

KeyTitle == <<"t", "i", "t", "l", "e", ":">>

KeyDescription ==
    <<"d", "e", "s", "c", "r", "i", "p", "t", "i", "o", "n", ":">>

KeyTags == <<"t", "a", "g", "s", ":">>

KeyAuthor == <<"a", "u", "t", "h", "o", "r", ":">>

\* f"'{value}'"
SingleQuoted(v) == <<"'">> \o v \o <<"'">>

DoubleQuoted(v) == <<"\"">> \o v \o <<"\"">>

\* The lines a block is made of: the three recognized fields, with single
\* and double quotes, and one opaque field that repeats the title's text.
FmLines ==
    { KeyTitle \o <<" ">> \o SingleQuoted(<<"A">>),
      KeyTitle \o <<" ">> \o DoubleQuoted(<<"A">>),
      KeyDescription \o <<" ">> \o SingleQuoted(<<"B">>),
      KeyTags \o <<" ", "[">> \o SingleQuoted(<<"A">>) \o <<",", " ">>
          \o SingleQuoted(<<"B">>) \o <<"]">>,
      KeyAuthor \o <<" ">> \o SingleQuoted(<<"A">>) }

RECURSIVE JoinLines(_)
JoinLines(ls) ==
    IF ls = << >> THEN <<"\n">>
    ELSE <<"\n">> \o Head(ls) \o JoinLines(Tail(ls))

FmBlocks ==
    { JoinLines(ls) : ls \in UNION { [1..n -> FmLines] : n \in 0..MaxLines } }

\* What the model may answer to a title or description request.
MetadataOutputs == { <<"X">>, <<" ", "X", "\n">>, <<"B">> }

\* The Markdown fence: three backquotes.  "^" stands for the backquote, which
\* a TLA+ string cannot hold.
Fence == <<"^", "^", "^">>

\* What the model may answer to a tags request.
TagsOutputs ==
    { <<"[">> \o SingleQuoted(<<"X">>) \o <<",", " ">>
          \o SingleQuoted(<<"Y">>) \o <<"]">>,
      Fence \o <<"j", "s", "o", "n", "\n", "[">> \o SingleQuoted(<<"X">>)
          \o <<"]", "\n">> \o Fence,
      <<"X", ",", " ", "Y">>,
      <<"[">> \o SingleQuoted(<<"X">>) }

\* _call_llm: result_text from the content of the response
ResultText(out, is_tags) ==
    IF is_tags
      THEN Strip(Replace(Replace(Strip(out), Fence \o <<"j", "s", "o", "n">>,
                                 << >>),
                         Fence, << >>))
      ELSE Strip(out)

NoTranslation == [r \in {"title", "description", "tags"} |-> << >>]

InitFM ==
    /\ raw_frontmatter \in FmBlocks
    /\ new_frontmatter = raw_frontmatter
    /\ fm_step = "title"
    /\ translated = NoTranslation

\* 1. Title
TranslateTitle ==
    /\ fm_step = "title"
    /\ LET title_match == SearchQuoted(raw_frontmatter, KeyTitle)
           original_title == Group1(raw_frontmatter, title_match)
       IN  IF title_match.found
             THEN \/ \E out \in MetadataOutputs :
                       LET translated_title == ResultText(out, FALSE)
                       IN  /\ new_frontmatter' =
                                Replace(new_frontmatter,
                                        SingleQuoted(original_title),
                                        SingleQuoted(translated_title))
                           /\ translated' =
                                [translated EXCEPT
                                   !["title"] = <<translated_title>>]
                           /\ fm_step' = "description"
                  \/ /\ fm_step' = "raised"
                     /\ UNCHANGED <<new_frontmatter, translated>>
             ELSE /\ fm_step' = "description"
                  /\ UNCHANGED <<new_frontmatter, translated>>
    /\ UNCHANGED raw_frontmatter
    /\ UNCHANGED <<mainVars, pathVars, splitVars>>

\* 2. Description
TranslateDescription ==
    /\ fm_step = "description"
    /\ LET desc_match == SearchQuoted(raw_frontmatter, KeyDescription)
           original_desc == Group1(raw_frontmatter, desc_match)
       IN  IF desc_match.found
             THEN \/ \E out \in MetadataOutputs :
                       LET translated_desc == ResultText(out, FALSE)
                       IN  /\ new_frontmatter' =
                                Replace(new_frontmatter,
                                        SingleQuoted(original_desc),
                                        SingleQuoted(translated_desc))
                           /\ translated' =
                                [translated EXCEPT
                                   !["description"] = <<translated_desc>>]
                           /\ fm_step' = "tags"
                  \/ /\ fm_step' = "raised"
                     /\ UNCHANGED <<new_frontmatter, translated>>
             ELSE /\ fm_step' = "tags"
                  /\ UNCHANGED <<new_frontmatter, translated>>
    /\ UNCHANGED raw_frontmatter
    /\ UNCHANGED <<mainVars, pathVars, splitVars>>

\* 3. Tags; return new_frontmatter
TranslateTags ==
    /\ fm_step = "tags"
    /\ LET tags_match == SearchBracket(raw_frontmatter, KeyTags)
           original_tags_str == Group1(raw_frontmatter, tags_match)
       IN  IF tags_match.found
             THEN \/ \E out \in TagsOutputs :
                       LET translated_tags_str == ResultText(out, TRUE)
                       IN  /\ new_frontmatter' =
                                IF /\ Contains(translated_tags_str, <<"[">>)
                                   /\ Contains(translated_tags_str, <<"]">>)
                                  THEN Replace(new_frontmatter,
                                               original_tags_str,
                                               translated_tags_str)
                                  ELSE new_frontmatter
                           /\ translated' =
                                [translated EXCEPT
                                   !["tags"] = <<translated_tags_str>>]
                           /\ fm_step' = "done"
                  \/ /\ fm_step' = "raised"
                     /\ UNCHANGED <<new_frontmatter, translated>>
             ELSE /\ fm_step' = "done"
                  /\ UNCHANGED <<new_frontmatter, translated>>
    /\ UNCHANGED raw_frontmatter
    /\ UNCHANGED <<mainVars, pathVars, splitVars>>

NextFM ==
    \/ TranslateTitle
    \/ TranslateDescription
    \/ TranslateTags

FMInit == IdleMain /\ InitFM /\ IdlePath /\ IdleSplit

SpecFM == FMInit /\ [][NextFM]_vars

(* Claims checked under SpecFM *)

TitleOf(b) == SearchQuoted(b, KeyTitle)

DescriptionOf(b) == SearchQuoted(b, KeyDescription)

TagsOf(b) == SearchBracket(b, KeyTags)

\* b with b[from..to] replaced by new, every other position kept
Splice(b, from, to, new) ==
    SubSeq(b, 1, from - 1) \o new \o SubSeq(b, to + 1, Len(b))

\* C4: when the tags translation lacks "[" or "]", the tags field of the
\* returned block is the tags field of the input block, whatever the title
\* and the description and their translations are.
C4_MalformedTagsKeepOriginal ==
    ( /\ fm_step = "done"
      /\ TagsOf(raw_frontmatter).found
      /\ \/ ~Contains(translated["tags"][1], <<"[">>)
         \/ ~Contains(translated["tags"][1], <<"]">>) )
    => /\ TagsOf(new_frontmatter).found
       /\ Group1(new_frontmatter, TagsOf(new_frontmatter))
            = Group1(raw_frontmatter, TagsOf(raw_frontmatter))

\* C5: for a block with a title field (single- or double-quoted) and no
\* description or tags field, the result is the block with the title's
\* quoted value replaced by the translated title and every other position
\* unchanged.
C5_OnlyTitleValueReplaced ==
    ( /\ fm_step = "done"
      /\ TitleOf(raw_frontmatter).found
      /\ ~DescriptionOf(raw_frontmatter).found
      /\ ~TagsOf(raw_frontmatter).found )
    => new_frontmatter =
         Splice(raw_frontmatter, TitleOf(raw_frontmatter).start,
                TitleOf(raw_frontmatter).end, translated["title"][1])

-----------------------------------------------------------------------------
(* SpecPath.  translation_agent.py: process_file, the output path *)

\* Most segments of a source path in the model.
MaxSegs == 3

SegKo == <<"k", "o">>

\* Directory and file names: the language segments, a directory, a file.
PathSegs == { SegKo, <<"e", "n">>, <<"b">>, <<"p">> }

\* A pathlib.Path in normal form: absolute or not, and its segments.
Paths ==
    [abs : BOOLEAN, segs : UNION { [1..n -> PathSegs] : n \in 1..MaxSegs }]

RECURSIVE JoinSegs(_)
JoinSegs(segs) ==
    IF Len(segs) = 1 THEN segs[1]
    ELSE segs[1] \o <<"/">> \o JoinSegs(Tail(segs))

\* str(path)
PathStr(p) == (IF p.abs THEN <<"/">> ELSE << >>) \o JoinSegs(p.segs)

LangChars(l) == IF l = "EN" THEN <<"E", "N">> ELSE <<"J", "P">>

\* str.lower()
Lower(s) ==
    [i \in 1..Len(s) |->
       CASE s[i] = "E" -> "e"
         [] s[i] = "N" -> "n"
         [] s[i] = "J" -> "j"
         [] s[i] = "P" -> "p"
         [] OTHER -> s[i]]

\* A variant of TargetPathStr that always nests the output under
\* path.parent / lang.lower(), ignoring a ko segment.
TargetPathStrNested(p, l) ==
    PathStr([abs |-> p.abs,
             segs |-> SubSeq(p.segs, 1, Len(p.segs) - 1)
                      \o <<Lower(LangChars(l)), p.segs[Len(p.segs)]>>])

\* target_path_str of process_file
TargetPathStr(p, l) ==
    IF Contains(PathStr(p), <<"/">> \o SegKo \o <<"/">>)
      THEN Replace(PathStr(p), <<"/">> \o SegKo \o <<"/">>,
                   <<"/">> \o Lower(LangChars(l)) \o <<"/">>)
      ELSE PathStr([abs |-> p.abs,
                    segs |-> SubSeq(p.segs, 1, Len(p.segs) - 1)
                             \o <<Lower(LangChars(l)), p.segs[Len(p.segs)]>>])

InitPath ==
    /\ path \in Paths
    /\ target_path = << >>

\* One iteration of "for lang in [EN, JP]": target_path = Path(target_path_str)
DeriveTargetPath ==
    /\ path # << >>
    /\ Len(target_path) < Len(Langs)
    /\ target_path' =
         Append(target_path, TargetPathStr(path, Langs[Len(target_path) + 1]))
    /\ UNCHANGED path
    /\ UNCHANGED <<mainVars, fmVars, splitVars>>

NextPath == DeriveTargetPath

PathInit == IdleMain /\ IdleFM /\ InitPath /\ IdleSplit

SpecPath == PathInit /\ [][NextPath]_vars

(* Claims checked under SpecPath *)

\* The path a string denotes (the inverse of PathStr).
ParsePath(t) ==
    LET parts == Split(t, <<"/">>, -1)
    IN  [abs  |-> parts[1] = << >>,
         segs |-> IF parts[1] = << >> THEN Tail(parts) ELSE parts]

\* Segment k of p is a directory named ko with a "/" on both sides.
IsKoSegment(p, k) ==
    /\ p.segs[k] = SegKo
    /\ k < Len(p.segs)
    /\ k > 1 \/ p.abs

HasKoSegment(p) == \E k \in 1..Len(p.segs) : IsKoSegment(p, k)

\* C8: with a "/ko/" segment in the source path, the output path is the
\* source path with the ko segment replaced by the lower-case language code
\* (b/ko/p with EN gives b/en/p); otherwise it is
\* <source directory>/<lower-case code>/<source file name>.  The EN and JP
\* output paths differ from each other and from the source path.
C8_OutputPathDerivation ==
    /\ \A i \in 1..Len(target_path) :
         LET code == Lower(LangChars(Langs[i]))
             t    == ParsePath(target_path[i])
             n    == Len(path.segs)
         IN  /\ code = (IF i = 1 THEN <<"e", "n">> ELSE <<"j", "p">>)
             /\ t.abs = path.abs
             /\ IF HasKoSegment(path)
                  THEN /\ Len(t.segs) = n
                       /\ \A k \in 1..n :
                            \/ t.segs[k] = path.segs[k]
                            \/ IsKoSegment(path, k) /\ t.segs[k] = code
                       /\ LET first ==
                                Least({ k \in 1..n : IsKoSegment(path, k) })
                          IN  t.segs[first] = code
                  ELSE t.segs = SubSeq(path.segs, 1, n - 1)
                                \o <<code, path.segs[n]>>
             /\ (path = [abs |-> FALSE, segs |-> <<<<"b">>, SegKo, <<"p">>>>]
                  /\ i = 1)
                => target_path[i] = <<"b", "/", "e", "n", "/", "p">>
             /\ target_path[i] # PathStr(path)
    /\ Len(target_path) = 2 => target_path[1] # target_path[2]

C8_Witness ==
    /\ Len(target_path) = 2
    /\ path = [abs |-> TRUE, segs |-> <<<<"b">>, SegKo, <<"p">>>>]
    /\ target_path[2] = <<"/", "b", "/", "j", "p", "/", "p">>

-----------------------------------------------------------------------------
(* SpecSplit.  translation_agent.py: process_file, the split of the text *)

\* Most pieces a document is put together from in the model.
MaxPieces == 5

Delimiter == <<"-", "-", "-">>

\* A document is a concatenation of these: the delimiter, a single dash,
\* a letter and a blank.
ContentPieces == { Delimiter, <<"-">>, <<"a">>, <<" ">> }

RECURSIVE Concat(_)
Concat(ps) == IF ps = << >> THEN << >> ELSE Head(ps) \o Concat(Tail(ps))

Contents ==
    { Concat(ps) : ps \in UNION { [1..n -> ContentPieces] : n \in 0..MaxPieces } }

\* A variant of SplitParts that splits at every delimiter.
SplitPartsAll(text) == Split(text, Delimiter, -1)

\* parts = content.split('---', 2)
SplitParts(text) == Split(text, Delimiter, 2)

InitSplit ==
    /\ content \in Contents
    /\ frontmatter = << >>
    /\ body = << >>
    /\ split_pc = "read"
    /\ split_lang = 0
    /\ fm_invoked = {}
    /\ body_calls = << >>

\* content = f.read(); parts = ...; if len(parts) < 3: ... else: ...
SplitContent ==
    /\ split_pc = "read"
    /\ LET parts == SplitParts(content)
       IN  IF Len(parts) < 3
             THEN /\ frontmatter' = << >>
                  /\ body' = content
             ELSE /\ frontmatter' = parts[2]
                  /\ body' = parts[3]
    /\ split_lang' = 1
    /\ split_pc' = "lang"
    /\ UNCHANGED <<content, fm_invoked, body_calls>>
    /\ UNCHANGED <<mainVars, fmVars, pathVars>>

\* self._translate_frontmatter(frontmatter, lang) if frontmatter else ""
\* (the call returns, or one of its inference calls raises)
TranslateFrontmatterOrSkip ==
    /\ split_pc = "lang"
    /\ split_lang <= Len(Langs)
    /\ IF frontmatter # << >>
         THEN /\ fm_invoked' = fm_invoked \cup {split_lang}
              /\ \E ok \in BOOLEAN :
                   split_pc' = IF ok THEN "body" ELSE "raised"
         ELSE /\ split_pc' = "body"
              /\ UNCHANGED fm_invoked
    /\ UNCHANGED <<content, frontmatter, body, split_lang, body_calls>>
    /\ UNCHANGED <<mainVars, fmVars, pathVars>>

\* translated_body = self._call_llm(body.strip(), lang), and the write
TranslateBody ==
    /\ split_pc = "body"
    /\ \E ok \in BOOLEAN :
         /\ body_calls' = Append(body_calls, [lang |-> split_lang,
                                              text |-> Strip(body),
                                              ok |-> ok])
         /\ IF ok THEN /\ split_lang' = split_lang + 1
                       /\ split_pc' = "lang"
                  ELSE /\ split_pc' = "raised"
                       /\ UNCHANGED split_lang
    /\ UNCHANGED <<content, frontmatter, body, fm_invoked>>
    /\ UNCHANGED <<mainVars, fmVars, pathVars>>

\* the loop over the languages is over: process_file returns
ProcessFileReturn ==
    /\ split_pc = "lang"
    /\ split_lang > Len(Langs)
    /\ split_pc' = "done"
    /\ UNCHANGED <<content, frontmatter, body, split_lang, fm_invoked,
                   body_calls>>
    /\ UNCHANGED <<mainVars, fmVars, pathVars>>

NextSplit ==
    \/ SplitContent
    \/ TranslateFrontmatterOrSkip
    \/ TranslateBody
    \/ ProcessFileReturn

SplitInit == IdleMain /\ IdleFM /\ IdlePath /\ InitSplit

SpecSplit == SplitInit /\ [][NextSplit]_vars

(* Claims checked under SpecSplit *)

\* The occurrences of the delimiter in s from position from on, counted
\* left to right without overlap.
RECURSIVE DelimCount(_, _)
DelimCount(s, from) ==
    LET i == Find(s, Delimiter, from)
    IN  IF i = 0 THEN 0 ELSE 1 + DelimCount(s, i + Len(Delimiter))

=============================================================================
